---- MODULE Spec2Model ----
(***************************************************************************)
(* Progressive tool disclosure of the chat API route                       *)
(* (src/app/api/chat/route.ts) and the chat request handler around it.     *)
(*                                                                         *)
(* A ToolSet is modelled by the set of its tool names (its keys); a step   *)
(* of the tool loop by the sequence of the tool names of its toolCalls     *)
(* (<<>> when the step has no toolCalls).                                  *)
(***************************************************************************)
EXTENDS Integers, Sequences, FiniteSets, TLC

VARIABLES
    tools,          \* ToolSet loaded by createMCPTools (its keys)
    previousSteps,  \* steps of the running ToolLoopAgent, as prepareStep sees them
    enabledTools,   \* ToolSet returned by the last getEnabledTools call
    pc,             \* where the POST handler of the current request stands
    response,       \* what POST returned for the current request
    turn,           \* chat requests of the conversation so far
    mcpFetch,       \* outcome of the current request's createMCPTools call
    conversation,   \* every step of every turn of the conversation, in order
    mcpTools,       \* tools/list result createMCPTools last worked on
    registry,       \* what createMCPTools last returned, or the error it threw
    rpcReply,       \* HTTP reply the last tools/call request received
    toolResult,     \* what the last execute call returned, or the error it threw
    clock,          \* Date.now() of the server process, in ms
    cachedTools,    \* module-level catalog cache of getTools, absent when null
    toolsCacheTime, \* module-level time stamp of the cache
    fetchedAt,      \* when the fetch that filled the cache resolved (never read by the code)
    latestFetchStart, \* latest start of a fetch that resolved (never read by the code)
    requests,       \* the concurrent chat requests served over the cache
    callsSent,      \* tools/call requests the bridge has sent in this turn
    callsReported,  \* results and errors execute has handed to the loop in this turn
    voiceCall,      \* the voice interface's HTTP call to the automation service
    promptBuild,    \* the buildSystemPromptAsync call in progress
    delivery        \* one JSON-RPC reply text, sent raw and sent in an SSE frame

routeVars == <<tools, previousSteps, enabledTools, pc, response, turn, mcpFetch, conversation>>

bridgeVars == <<mcpTools, registry, rpcReply, toolResult>>

cacheVars == <<clock, cachedTools, toolsCacheTime, fetchedAt, latestFetchStart, requests>>

callVars == <<callsSent, callsReported>>

\* state outside the chat route and the bridge
sideVars == <<cacheVars, voiceCall, promptBuild, delivery>>

auxVars == <<bridgeVars, callVars, sideVars>>

vars == <<routeVars, auxVars>>

(***************************************************************************)
(* TOOL_CATEGORIES, route.ts:20-99                                         *)
(***************************************************************************)
TOOL_CATEGORIES ==
    [ safe |-> { "get_current_time", "list_devices", "get_page_info",
                 "get_page_elements", "list_tabs", "get_terminal_output",
                 "list_terminals", "get_session_info", "list_sessions",
                 "recall_memory", "get_console_logs", "list_viewport_presets",
                 "visual_list_baselines", "voice_status", "supabase_query" },
      navigation |-> { "navigate_browser", "create_tab", "switch_tab" },
      interaction |-> { "click_element", "fill_input", "scroll_page",
                        "hover_element", "send_key", "wait_for_element",
                        "query_element", "execute_javascript", "take_screenshot",
                        "set_viewport", "visual_save_baseline", "visual_compare" },
      terminal |-> { "send_terminal_command", "create_terminal",
                     "spawn_claude_session", "send_to_session",
                     "broadcast_to_agents" },
      database_write |-> { "supabase_insert", "supabase_update", "supabase_delete" },
      destructive |-> { "close_tab" },
      memory |-> { "store_memory" },
      voice |-> { "voice_speak", "voice_start_listening", "voice_stop_listening" },
      agent_draft |-> { "draft_to_agent", "get_agent_input", "edit_agent_input",
                        "clear_agent_input", "get_agent_conversation",
                        "wait_for_agent_response", "list_agent_sessions",
                        "get_session_output" } ]

CategoryNames == DOMAIN TOOL_CATEGORIES

CategorizedTools == UNION { TOOL_CATEGORIES[c] : c \in CategoryNames }

\* Tool names the agent instructions advertise that no category lists
\* (route.ts:256-257).
UncategorizedTools == { "send_command_to_agent", "start_claude_agent" }

\* Screenshot rate limit of getEnabledTools (route.ts:135).
ScreenshotLimit == 5

(***************************************************************************)
(* getEnabledTools, route.ts:104-169                                       *)
(***************************************************************************)
Range(s) == { s[i] : i \in DOMAIN s }

\* route.ts:108-110: new Set(previousSteps.flatMap(s => s.toolCalls?.map(...) || []))
usedTools(steps) == UNION { Range(steps[i]) : i \in DOMAIN steps }

hasNavigatedOnlyCreateTab(steps) == "create_tab" \in usedTools(steps)

hasNavigatedOrListedTabs(steps) ==
    \/ "navigate_browser" \in usedTools(steps)
    \/ "create_tab" \in usedTools(steps)
    \/ "list_tabs" \in usedTools(steps)

\* hasNavigated reading the latest step only
hasNavigatedInLastStep(steps) ==
    /\ Len(steps) > 0
    /\ \/ "navigate_browser" \in Range(steps[Len(steps)])
       \/ "create_tab" \in Range(steps[Len(steps)])

\* route.ts:113
hasNavigated(steps) ==
    \/ "navigate_browser" \in usedTools(steps)
    \/ "create_tab" \in usedTools(steps)

\* route.ts:114 (computed, never read)
hasListedDevices(steps) == "list_devices" \in usedTools(steps)

\* route.ts:117-119: the number of STEPS holding some take_screenshot call
screenshotCount(steps) ==
    Cardinality({ i \in DOMAIN steps :
                    \E j \in DOMAIN steps[i] : steps[i][j] = "take_screenshot" })

\* enabledToolNames with navigation enabled only after list_devices
enabledToolNamesNavAfterDevices(steps) ==
    LET s1 == TOOL_CATEGORIES.safe
        s2 == IF hasListedDevices(steps) THEN s1 \cup TOOL_CATEGORIES.navigation ELSE s1
        s3 == IF hasNavigated(steps)
              THEN LET a == s2 \cup TOOL_CATEGORIES.interaction
                   IN  IF screenshotCount(steps) >= ScreenshotLimit
                       THEN a \ { "take_screenshot" } ELSE a
              ELSE s2
        s4 == s3 \cup TOOL_CATEGORIES.terminal
        s5 == s4 \cup TOOL_CATEGORIES.database_write
        s6 == IF hasNavigated(steps) \/ "list_tabs" \in usedTools(steps)
              THEN s5 \cup TOOL_CATEGORIES.destructive ELSE s5
        s7 == s6 \cup TOOL_CATEGORIES.memory
        s8 == s7 \cup TOOL_CATEGORIES.voice
    IN  s8 \cup TOOL_CATEGORIES.agent_draft

\* enabledToolNames with the destructive category enabled unconditionally
enabledToolNamesDestructiveAlways(steps) ==
    LET s1 == TOOL_CATEGORIES.safe
        s2 == s1 \cup TOOL_CATEGORIES.navigation
        s3 == IF hasNavigated(steps)
              THEN LET a == s2 \cup TOOL_CATEGORIES.interaction
                   IN  IF screenshotCount(steps) >= ScreenshotLimit
                       THEN a \ { "take_screenshot" } ELSE a
              ELSE s2
        s4 == s3 \cup TOOL_CATEGORIES.terminal
        s5 == s4 \cup TOOL_CATEGORIES.database_write
        s6 == s5 \cup TOOL_CATEGORIES.destructive
        s7 == s6 \cup TOOL_CATEGORIES.memory
        s8 == s7 \cup TOOL_CATEGORIES.voice
    IN  s8 \cup TOOL_CATEGORIES.agent_draft

\* enabledToolNames with the terminal category enabled only after navigation
enabledToolNamesTerminalAfterNavigation(steps) ==
    LET s1 == TOOL_CATEGORIES.safe
        s2 == s1 \cup TOOL_CATEGORIES.navigation
        s3 == IF hasNavigated(steps)
              THEN LET a == s2 \cup TOOL_CATEGORIES.interaction
                   IN  IF screenshotCount(steps) >= ScreenshotLimit
                       THEN a \ { "take_screenshot" } ELSE a
              ELSE s2
        s4 == IF hasNavigated(steps) THEN s3 \cup TOOL_CATEGORIES.terminal ELSE s3
        s5 == s4 \cup TOOL_CATEGORIES.database_write
        s6 == IF hasNavigated(steps) \/ "list_tabs" \in usedTools(steps)
              THEN s5 \cup TOOL_CATEGORIES.destructive ELSE s5
        s7 == s6 \cup TOOL_CATEGORIES.memory
        s8 == s7 \cup TOOL_CATEGORIES.voice
    IN  s8 \cup TOOL_CATEGORIES.agent_draft

\* route.ts:121-158: the Set enabledToolNames after every add and delete,
\* in the order the code performs them
enabledToolNames(steps) ==
    LET s1 == TOOL_CATEGORIES.safe
        s2 == s1 \cup TOOL_CATEGORIES.navigation
        s3 == IF hasNavigated(steps)
              THEN LET a == s2 \cup TOOL_CATEGORIES.interaction
                   IN  IF screenshotCount(steps) >= ScreenshotLimit
                       THEN a \ { "take_screenshot" } ELSE a
              ELSE s2
        s4 == s3 \cup TOOL_CATEGORIES.terminal
        s5 == s4 \cup TOOL_CATEGORIES.database_write
        s6 == IF hasNavigated(steps) \/ "list_tabs" \in usedTools(steps)
              THEN s5 \cup TOOL_CATEGORIES.destructive ELSE s5
        s7 == s6 \cup TOOL_CATEGORIES.memory
        s8 == s7 \cup TOOL_CATEGORIES.voice
    IN  s8 \cup TOOL_CATEGORIES.agent_draft

\* getEnabledTools without the final filter over the catalog
getEnabledToolsUnfiltered(allTools, steps) == enabledToolNames(steps)

\* route.ts:160-168: keep the catalog entries whose name is enabled
getEnabledTools(allTools, steps) ==
    LET names == enabledToolNames(steps)
    IN  { name \in allTools : name \in names }

(***************************************************************************)
(* MCP HTTP client, lib/mcp-http-client.ts                                 *)
(*                                                                         *)
(* An optional value (a member or argument that may be undefined) is the   *)
(* empty set when absent and the singleton of its value when present.      *)
(***************************************************************************)
None == {}

Some(x) == { x }

The(opt) == CHOOSE x \in opt : TRUE

\* text.substring(0, 200), mcp-http-client.ts:84
ExcerptLength == 200

\* what a call returned, or the Error it threw; carries is the remote error
\* message the Error's text holds, when it holds one
Return(v) == [ kind |-> "return", value |-> v ]

Throw(what, message) == [ kind |-> "throw", error |-> what, carries |-> message ]

\* `result.error.message || JSON.stringify(result.error)`, mcp-http-client.ts:80,91
errorText(error) ==
    IF error.message # "" THEN error.message ELSE "{\"message\":\"\"}"

\* the Error of the fallback's catch block, mcp-http-client.ts:83-85: its text
\* is the first ExcerptLength characters of the body, which hold the remote
\* message when the message ends within them
parseFailure(reply) ==
    Throw("Failed to parse MCP response",
          IF /\ reply.json # None
             /\ The(reply.json).error # None
             /\ The(The(reply.json).error).messageEnd <= ExcerptLength
          THEN Some(The(The(reply.json).error).message)
          ELSE None)

\* jsonRpcRequest whose fallback rethrows the MCP error instead of catching it
jsonRpcRequestFallbackRethrows(reply) ==
    IF ~ reply.ok
    THEN Throw("MCP request failed", None)
    ELSE IF reply.json = None
    THEN IF reply.sse THEN Throw("SyntaxError", None) ELSE parseFailure(reply)
    ELSE IF The(reply.json).error # None
    THEN Throw("MCP error", Some(errorText(The(The(reply.json).error))))
    ELSE Return(The(reply.json).result)

\* jsonRpcRequest, mcp-http-client.ts:44-95, from the HTTP reply on.
\* reply.ok: response.ok; reply.sse: the body holds a line "data: ..." ;
\* reply.json: the value JSON.parse yields for the data line (or for the
\* whole body without one), None when it throws a SyntaxError.
jsonRpcRequest(reply) ==
    IF ~ reply.ok
    THEN Throw("MCP request failed", None)                      \* :66-68
    ELSE IF ~ reply.sse
    THEN \* :75-86, the try block and its catch-all
         IF reply.json = None
         THEN parseFailure(reply)
         ELSE IF The(reply.json).error # None
         THEN parseFailure(reply)       \* the MCP error thrown at :80 is caught at :83
         ELSE Return(The(reply.json).result)
    ELSE \* :88-94
         IF reply.json = None
         THEN Throw("SyntaxError", None)
         ELSE IF The(reply.json).error # None
         THEN Throw("MCP error", Some(errorText(The(The(reply.json).error))))
         ELSE Return(The(reply.json).result)

\* defaultSchema, mcp-http-client.ts:103
defaultSchema == [ type |-> Some("object"), properties |-> Some({}), required |-> None ]

\* ensureObjectSchema handing the declared schema through
ensureObjectSchemaAsDeclared(schema) ==
    IF schema = None THEN defaultSchema ELSE The(schema)

\* ensureObjectSchema, mcp-http-client.ts:101-120
ensureObjectSchema(schema) ==
    IF schema = None
    THEN defaultSchema
    ELSE IF The(schema).type = Some("object")
    THEN [ type |-> Some("object"),
           properties |-> IF The(schema).properties = None
                          THEN Some({}) ELSE The(schema).properties,
           required |-> The(schema).required ]
    ELSE defaultSchema

\* the loop of createMCPTools, mcp-http-client.ts:139-184: tools[name] is
\* assigned entry by entry, a later entry replacing an earlier one of the
\* same name
RECURSIVE registerTools(_, _)
registerTools(entries, toolSet) ==
    IF entries = <<>>
    THEN toolSet
    ELSE LET e == Head(entries)
             added == [ n \in DOMAIN toolSet \cup { e.name } |->
                          IF n = e.name
                          THEN [ inputSchema |-> ensureObjectSchema(e.inputSchema) ]
                          ELSE toolSet[n] ]
         IN  registerTools(Tail(entries), added)

\* createMCPTools dropping the entries whose schema is not an object schema
createMCPToolsDropsNonObject(listReply) ==
    LET r == jsonRpcRequest(listReply)
        kept == SelectSeq(r.value.tools,
                          LAMBDA e : e.inputSchema # None
                                     /\ The(e.inputSchema).type = Some("object"))
    IN  IF r.kind = "throw"
        THEN r
        ELSE Return([ tools |-> registerTools(kept, <<>>),
                      toolCount |-> Len(r.value.tools) ])

\* createMCPTools, mcp-http-client.ts:126-191
createMCPTools(listReply) ==
    LET r == jsonRpcRequest(listReply)
    IN  IF r.kind = "throw"
        THEN r
        ELSE Return([ tools |-> registerTools(r.value.tools, <<>>),
                      toolCount |-> Len(r.value.tools) ])

\* result.content?.filter(c => c.type === 'text').map(c => c.text),
\* mcp-http-client.ts:161-163; the joined string is kept as the list of its
\* lines, empty when there is no text item
textContent(content) ==
    LET texts == SelectSeq(content, LAMBDA c : c.type = "text")
    IN  [ i \in 1..Len(texts) |-> texts[i].text ]

\* result.content?.find(c => c.type === 'image'), mcp-http-client.ts:167
imageContent(content) ==
    IF \E i \in DOMAIN content : content[i].type = "image"
    THEN Some(content[CHOOSE i \in DOMAIN content :
                        /\ content[i].type = "image"
                        /\ \A j \in 1..(i - 1) : content[j].type # "image"])
    ELSE None

\* execute handing back every image item that holds data
executeAllImages(reply) ==
    LET r == jsonRpcRequest(reply)
        content == r.value.content
        images == SelectSeq(content, LAMBDA c : c.type = "image" /\ c.data # None)
    IN  IF r.kind = "throw" THEN r
        ELSE IF images # <<>>
        THEN Return([ text |-> IF textContent(content) # <<>>
                               THEN textContent(content) ELSE << "Image captured" >>,
                      images |-> [ i \in 1..Len(images) |->
                                     [ image |-> The(images[i].data),
                                       mimeType |-> IF images[i].mimeType # None
                                                    THEN The(images[i].mimeType)
                                                    ELSE "image/png" ] ] ])
        ELSE Return([ text |-> IF textContent(content) # <<>>
                               THEN textContent(content)
                               ELSE << "JSON.stringify(content)" >>,
                      images |-> <<>> ])

\* execute throwing for a result flagged isError
executeThrowsOnIsError(reply) ==
    LET r == jsonRpcRequest(reply)
        content == r.value.content
        image == imageContent(content)
    IN  IF r.kind = "throw"
        THEN r
        ELSE IF r.value.isError = Some(TRUE)
        THEN Throw("Tool error", None)
        ELSE IF image # None /\ The(image).data # None
        THEN Return([ text |-> IF textContent(content) # <<>>
                               THEN textContent(content) ELSE << "Image captured" >>,
                      images |-> << [ image |-> The(The(image).data),
                                      mimeType |-> IF The(image).mimeType # None
                                                   THEN The(The(image).mimeType)
                                                   ELSE "image/png" ] >> ])
        ELSE Return([ text |-> IF textContent(content) # <<>>
                               THEN textContent(content)
                               ELSE << "JSON.stringify(content)" >>,
                      images |-> <<>> ])

\* execute of a registered tool, mcp-http-client.ts:150-182, from the HTTP
\* reply of its tools/call request on; a returned value is kept as its text
\* lines and the image payloads it holds
execute(reply) ==
    LET r == jsonRpcRequest(reply)
        content == r.value.content
        image == imageContent(content)
    IN  IF r.kind = "throw"
        THEN r                                                   \* :178-181
        ELSE IF image # None /\ The(image).data # None
        THEN Return([ text |-> IF textContent(content) # <<>>    \* :169-175
                               THEN textContent(content) ELSE << "Image captured" >>,
                      images |-> << [ image |-> The(The(image).data),
                                      mimeType |-> IF The(image).mimeType # None
                                                   THEN The(The(image).mimeType)
                                                   ELSE "image/png" ] >> ])
        ELSE Return([ text |-> IF textContent(content) # <<>>    \* :177
                               THEN textContent(content)
                               ELSE << "JSON.stringify(content)" >>,
                      images |-> <<>> ])

NoValue == [ kind |-> "none" ]

(***************************************************************************)
(* The body of a reply, mcp-http-client.ts:70-88.  A text is what          *)
(* JSON.parse yields for it (json, None when it is not JSON), whether a    *)
(* string value of it holds a line terminator that JSON allows unescaped   *)
(* (U+2028, U+2029: separator), and whether the characters after that      *)
(* terminator begin with "data: " (dataNext).  A body is the text as it    *)
(* is (framing "raw") or after "event: message\ndata: " (framing "sse").   *)
(***************************************************************************)

\* text.match(/^data: (.+)$/m), mcp-http-client.ts:74: the first line that
\* begins with "data: ", a line ending at any line terminator; what is
\* matched is kept as the value JSON.parse yields for the capture
dataMatch(body) ==
    IF body.framing = "sse"
    THEN Some([ json |-> IF body.text.separator THEN None ELSE body.text.json ])
    ELSE IF body.text.separator /\ body.text.dataNext
    THEN Some([ json |-> None ])
    ELSE None

\* mcp-http-client.ts:66-88: the reply as jsonRpcRequest sees it: response.ok,
\* whether the match succeeded, and the value of JSON.parse over the capture
\* (:88) or, without a match, over the whole text (:78)
received(ok, body) ==
    [ ok |-> ok,
      sse |-> dataMatch(body) # None,
      json |-> IF dataMatch(body) # None
               THEN The(dataMatch(body)).json
               ELSE body.text.json ]

\* no reply delivered
NoDelivery ==
    [ pc |-> "idle", ok |-> TRUE,
      text |-> [ json |-> None, separator |-> FALSE, dataNext |-> FALSE ],
      raw |-> NoValue, sse |-> NoValue, catalogRaw |-> NoValue, catalogSse |-> NoValue ]

NoReply == [ ok |-> TRUE, sse |-> TRUE, json |-> None ]

(***************************************************************************)
(* Catalog cache of the chat route, knowledge/system.md:287-309, and the   *)
(* POST handler over it, knowledge/system.md:311-355                       *)
(***************************************************************************)

TOOLS_CACHE_TTL == 60000

\* system.md:294: the cache holds a catalog and its stamp is younger than the TTL
\* mutation: the age of the cached catalog is not looked at
cacheFreshWithoutExpiry(now) ==
    cachedTools # None

cacheFresh(now) ==
    /\ cachedTools # None
    /\ (now - toolsCacheTime) < TOOLS_CACHE_TTL

\* system.md:307: what getTools returns when the fetch failed
\* mutation: a catalog still held is returned when the fetch failed
emptyToolsOrStaleCatalog ==
    IF cachedTools # None THEN The(cachedTools) ELSE [ tools |-> {}, toolCount |-> 0 ]

emptyTools == [ tools |-> {}, toolCount |-> 0 ]

\* a chat request that has not called getTools
IdleRequest == [ pc |-> "idle", now |-> 0, fetch |-> "none", got |-> None ]

RequestIds == {"a", "b"}

CacheInit ==
    /\ clock = 0
    /\ cachedTools = None
    /\ toolsCacheTime = 0
    /\ fetchedAt = 0
    /\ latestFetchStart = 0
    /\ requests = [r \in RequestIds |-> IdleRequest]

(***************************************************************************)
(* Voice interface, components/voice/voice-interface.tsx                   *)
(***************************************************************************)

\* voice-interface.tsx:36: Response.ok
responseOk(status) == status >= 200 /\ status <= 299

\* voice-interface.tsx:37: what is returned for a non-OK status
httpFailure(status) ==
    [ success |-> FALSE, data |-> None, error |-> Some(<<"HTTP", status>>) ]

\* voice-interface.tsx:46: what is returned from the catch
automationUnavailable ==
    [ success |-> FALSE, data |-> None,
      error |-> Some("Browser automation not available. I can still chat with you.") ]

\* voice-interface.tsx:40-41: res.json() parses the body; a body that is
\* not JSON makes it throw, which the catch turns into a failure
bodyResult(body) ==
    IF body.json # None
    THEN [ success |-> TRUE, data |-> body.json, error |-> None ]
    ELSE automationUnavailable

\* no HTTP call under way
NoCall ==
    [ pc |-> "idle", caller |-> "none", timer |-> "off", status |-> 0,
      body |-> [ json |-> None ], result |-> NoValue ]

(***************************************************************************)
(* Knowledge loader, unnamed/part_009:155-363                              *)
(*                                                                         *)
(* A prompt is the sequence of the sections that join('\n\n---\n\n') puts  *)
(* together; a knowledge file is its priority and its content.             *)
(***************************************************************************)

\* part_009:254: Array.prototype.sort by priority (stable): file f put into
\* the sorted sequence after every file of priority at most its own
insertByPriority(sorted, f) ==
    LET before == { i \in DOMAIN sorted : sorted[i].priority <= f.priority }
        k == Cardinality(before)
    IN  SubSeq(sorted, 1, k) \o << f >> \o SubSeq(sorted, k + 1, Len(sorted))

RECURSIVE sortByPriority(_)
sortByPriority(files) ==
    IF files = <<>> THEN <<>>
    ELSE insertByPriority(sortByPriority(SubSeq(files, 1, Len(files) - 1)),
                          files[Len(files)])

\* part_009:230-255: the files of the knowledge directory, by priority; no
\* file when the directory is missing
loadKnowledgeFiles(files) == sortByPriority(files)

\* part_009:290-306
getDefaultPrompt == << "You are Mahana, a voice assistant for browser automation." >>

\* part_009:264-273
buildSystemPrompt(files) ==
    LET loaded == loadKnowledgeFiles(files)
    IN  IF Len(loaded) = 0
        THEN getDefaultPrompt
        ELSE [ i \in 1..Len(loaded) |-> loaded[i].content ]

\* part_009:314-346: no client without credentials; a query that throws, that
\* returns an error or that returns no data yields no entry
loadFromSupabase(configured, query) ==
    IF ~configured THEN <<>>
    ELSE IF query.kind = "throw" THEN <<>>
    ELSE IF query.error # None \/ query.data = None THEN <<>>
    ELSE The(query.data)

\* part_009:351-363
\* mutation: the prompt is built from the Supabase entries even when there
\* is none
buildSystemPromptAsyncNoFallback(configured, query, files) ==
    LET supabaseKnowledge == loadFromSupabase(configured, query)
    IN  [ i \in 1..Len(supabaseKnowledge) |-> supabaseKnowledge[i].content ]

buildSystemPromptAsync(configured, query, files) ==
    LET supabaseKnowledge == loadFromSupabase(configured, query)
    IN  IF Len(supabaseKnowledge) > 0
        THEN [ i \in 1..Len(supabaseKnowledge) |-> supabaseKnowledge[i].content ]
        ELSE buildSystemPrompt(files)

\* no buildSystemPromptAsync call under way
NoBuild ==
    [ pc |-> "idle", configured |-> FALSE, query |-> NoValue, files |-> <<>>,
      prompt |-> <<>> ]

AuxInit ==
    /\ delivery = NoDelivery
    /\ voiceCall = NoCall
    /\ promptBuild = NoBuild
    /\ mcpTools = <<>>
    /\ registry = NoValue
    /\ rpcReply = NoReply
    /\ toolResult = NoValue
    /\ callsSent = 0
    /\ callsReported = 0
    /\ CacheInit

(***************************************************************************)
(* Inputs                                                                  *)
(***************************************************************************)
\* Catalogs the MCP server may serve: everything the route knows plus the
\* uncategorized tools, a server that lacks some categorized tools, and a
\* server with no tools.
FullCatalog == CategorizedTools \cup UncategorizedTools

PartialCatalog ==
    FullCatalog \ { "get_current_time", "switch_tab", "fill_input",
                    "create_terminal", "voice_speak", "clear_agent_input" }

Catalogs == { FullCatalog, PartialCatalog, {} }

\* Longest history of steps explored.
MaxSteps == 6

\* Most steps of a history that hold no take_screenshot call.
MaxOtherSteps == 2

\* toolCalls of one step that hold a take_screenshot call
ScreenshotSteps ==
    { <<"take_screenshot">>, <<"take_screenshot", "take_screenshot">> }

\* toolCalls of one step that hold no take_screenshot call (<<>>: text only)
OtherSteps ==
    { <<>>, <<"navigate_browser">>, <<"create_tab">>, <<"switch_tab">>,
      <<"list_tabs">>, <<"click_element">>, <<"close_tab">> }

StepChoices == ScreenshotSteps \cup OtherSteps

otherStepCount(steps) ==
    Cardinality({ i \in DOMAIN steps : steps[i] \in OtherSteps })

\* individual take_screenshot calls of a history
screenshotCalls(steps) ==
    Cardinality({ p \in UNION { { i } \X DOMAIN steps[i] : i \in DOMAIN steps } :
                    steps[p[1]][p[2]] = "take_screenshot" })

(***************************************************************************)
(* The gate applied to every history: a loop whose model may request any   *)
(* tool call, prepareStep run before each step (route.ts:216-230)          *)
(***************************************************************************)
GateInit ==
    /\ tools \in Catalogs
    /\ previousSteps = <<>>
    /\ enabledTools = getEnabledTools(tools, <<>>)
    /\ pc = "model"
    /\ response = "stream"
    /\ turn = 1
    /\ mcpFetch = "resolved"
    /\ conversation = <<>>
    /\ AuxInit

\* one step is appended to previousSteps and prepareStep runs for the next
GateStep ==
    \E step \in StepChoices :
        /\ Len(previousSteps) < MaxSteps
        /\ step \in OtherSteps => otherStepCount(previousSteps) < MaxOtherSteps
        /\ previousSteps' = Append(previousSteps, step)
        /\ enabledTools' = getEnabledTools(tools, previousSteps')
        /\ conversation' = previousSteps'
        /\ UNCHANGED <<tools, pc, response, turn, mcpFetch>>
        /\ UNCHANGED auxVars

GateNext == GateStep

GateSpec == GateInit /\ [][GateNext]_vars

(***************************************************************************)
(* POST, route.ts:194-306: one chat request per turn of a conversation     *)
(***************************************************************************)
\* stopWhen: stepCountIs(10), route.ts:284
StepLimit == 10

\* Chat requests of one conversation explored.
MaxTurns == 2

\* stepCountIs letting one more step through
stepCountIsExceeded(n, steps) == Len(steps) > n

\* stepCountIs(n), the stop condition handed to stopWhen, route.ts:284
stepCountIs(n, steps) == Len(steps) >= n

\* steps of a history that call tools other than take_screenshot
toolStepCount(steps) ==
    Cardinality({ i \in DOMAIN steps : steps[i] \in OtherSteps \ { <<>> } })

Init ==
    /\ tools = {}
    /\ previousSteps = <<>>
    /\ enabledTools = {}
    /\ pc = "idle"
    /\ response = "none"
    /\ turn = 0
    /\ mcpFetch = "none"
    /\ conversation = <<>>
    /\ AuxInit

\* route.ts:194-203: the client posts the messages of the conversation; the
\* handler maps them to UIMessages and awaits createMCPTools
Request ==
    /\ pc = "idle"
    /\ turn < MaxTurns
    /\ turn' = turn + 1
    /\ pc' = "loading"
    /\ response' = "none"
    /\ tools' = {}
    /\ previousSteps' = <<>>
    /\ enabledTools' = {}
    /\ mcpFetch' = "pending"
    /\ rpcReply' = NoReply
    /\ toolResult' = NoValue
    /\ callsSent' = 0
    /\ callsReported' = 0
    /\ UNCHANGED <<conversation, mcpTools, registry, sideVars>>

\* route.ts:203-291: createMCPTools resolves; the agent is built over the
\* catalog and its streaming response is returned
CreateMCPToolsResolves ==
    \E catalog \in Catalogs :
        /\ pc = "loading"
        /\ tools' = catalog
        /\ mcpFetch' = "resolved"
        /\ response' = "stream"
        /\ pc' = "prepare"
        /\ UNCHANGED <<previousSteps, enabledTools, turn, conversation>>
        /\ UNCHANGED auxVars

\* route.ts:292-304: createMCPTools rejects; the catch block answers 500
CreateMCPToolsRejects ==
    /\ pc = "loading"
    /\ mcpFetch' = "rejected"
    /\ response' = "error500"
    /\ pc' = "idle"
    /\ UNCHANGED <<tools, previousSteps, enabledTools, turn, conversation>>
    /\ UNCHANGED auxVars

\* route.ts:216-230
PrepareStep ==
    /\ pc = "prepare"
    /\ enabledTools' = getEnabledTools(tools, previousSteps)
    /\ pc' = "model"
    /\ UNCHANGED <<tools, previousSteps, response, turn, mcpFetch, conversation>>
    /\ UNCHANGED auxVars

\* one step of the ToolLoopAgent: the model answers in text (no tool call) or
\* requests calls of tools offered for the step; the loop stops on a step
\* without tool calls and on the step limit
ModelStep ==
    \E step \in StepChoices :
        /\ pc = "model"
        /\ Range(step) \subseteq enabledTools
        /\ step # <<>> =>
              /\ Len(conversation) < MaxSteps
              /\ step \in OtherSteps => toolStepCount(conversation) < MaxOtherSteps
        /\ previousSteps' = Append(previousSteps, step)
        /\ conversation' = Append(conversation, step)
        /\ pc' = IF step = <<>> \/ stepCountIs(StepLimit, previousSteps')
                 THEN "idle" ELSE "prepare"
        /\ UNCHANGED <<tools, enabledTools, response, turn, mcpFetch>>
        /\ UNCHANGED auxVars

Next ==
    \/ Request
    \/ CreateMCPToolsResolves
    \/ CreateMCPToolsRejects
    \/ PrepareStep
    \/ ModelStep

Spec == Init /\ [][Next]_vars

(***************************************************************************)
(* The bridge on its own: one createMCPTools call over a tools/list reply, *)
(* then one execute call over a tools/call reply                           *)
(***************************************************************************)
\* Longest tools/list result explored.
MaxCatalogEntries == 2

\* Longest content array of a tools/call result explored.
MaxContent == 2

\* inputSchema members of MCPTool entries: absent, an object schema with
\* properties, an object schema without, a non-object schema and a schema
\* without a type
SchemaChoices ==
    { None,
      Some([ type |-> Some("object"), properties |-> Some({ "url" }),
             required |-> Some({ "url" }) ]),
      Some([ type |-> Some("object"), properties |-> None, required |-> None ]),
      Some([ type |-> Some("string"), properties |-> None, required |-> None ]),
      Some([ type |-> None, properties |-> Some({ "url" }), required |-> None ]) }

EntryChoices ==
    [ name : { "take_screenshot", "list_tabs" }, inputSchema : SchemaChoices ]

SeqsUpTo(S, n) == UNION { [ 1..k -> S ] : k \in 0..n }

\* items of MCPCallToolResponse.content, mcp-http-client.ts:25-33
ContentItems ==
    { [ type |-> "text", text |-> "ok", data |-> None, mimeType |-> None ],
      [ type |-> "image", text |-> "", data |-> Some("AAAA"),
        mimeType |-> Some("image/jpeg") ],
      [ type |-> "image", text |-> "", data |-> Some("BBBB"), mimeType |-> None ],
      [ type |-> "image", text |-> "", data |-> None, mimeType |-> None ] }

\* error members of a JSON-RPC reply: the message and the offset of its end
\* in the body
ErrorMembers ==
    [ message : { "boom", "" }, messageEnd : { 64, 264 } ]

ErrorEnvelopes == { [ error |-> Some(e), result |-> NoValue ] : e \in ErrorMembers }

ListEnvelopes ==
    { [ error |-> None, result |-> [ tools |-> l ] ] :
        l \in SeqsUpTo(EntryChoices, MaxCatalogEntries) }

CallEnvelopes ==
    { [ error |-> None, result |-> [ content |-> c, isError |-> e ] ] :
        c \in SeqsUpTo(ContentItems, MaxContent), e \in { None, Some(TRUE) } }

\* HTTP replies to a request whose well-formed results are `envelopes`
RepliesOver(envelopes) ==
    { [ ok |-> FALSE, sse |-> FALSE, json |-> None ] }
        \cup [ ok : { TRUE }, sse : BOOLEAN,
               json : { None } \cup { Some(v) : v \in envelopes \cup ErrorEnvelopes } ]

ListReplies == RepliesOver(ListEnvelopes)

CallReplies == RepliesOver(CallEnvelopes)

\* mcp-http-client.ts:126-191: createMCPTools over one tools/list reply
BridgeCreate ==
    \E reply \in ListReplies :
        /\ registry.kind = "none"
        /\ registry' = createMCPTools(reply)
        /\ mcpTools' = IF jsonRpcRequest(reply).kind = "return"
                       THEN jsonRpcRequest(reply).value.tools ELSE <<>>
        /\ UNCHANGED <<rpcReply, toolResult, routeVars, callVars, sideVars>>

\* mcp-http-client.ts:150-182: the model calls a registered tool
BridgeExecute ==
    \E reply \in CallReplies :
        /\ registry.kind = "return"
        /\ DOMAIN registry.value.tools # {}
        /\ toolResult.kind = "none"
        /\ rpcReply' = reply
        /\ toolResult' = execute(reply)
        /\ UNCHANGED <<mcpTools, registry, routeVars, callVars, sideVars>>

\* the request is over: nothing of it is kept
BridgeDone ==
    /\ \/ registry.kind = "throw"
       \/ toolResult.kind # "none"
    /\ mcpTools' = <<>>
    /\ registry' = NoValue
    /\ rpcReply' = NoReply
    /\ toolResult' = NoValue
    /\ UNCHANGED <<routeVars, callVars, sideVars>>

BridgeNext ==
    \/ BridgeCreate
    \/ BridgeExecute
    \/ BridgeDone

BridgeSpec == Init /\ [][BridgeNext]_vars

(***************************************************************************)
(* The tool loop of one request with the execution of the requested tool   *)
(* calls: ToolLoopAgent over the bridge's tools, route.ts:207-291          *)
(***************************************************************************)
\* toolCalls the model requests in this loop: none (a text answer) or a
\* call of a tool that is always offered
LoopChoices == { <<>>, <<"list_tabs">> }

\* HTTP replies the tools/call request of a step receives
LoopReplies ==
    { [ ok |-> FALSE, sse |-> FALSE, json |-> None ],
      [ ok |-> TRUE, sse |-> TRUE, json |-> None ] }
        \cup [ ok : { TRUE }, sse : BOOLEAN,
               json : { Some([ error |-> Some(e), result |-> NoValue ]) :
                          e \in [ message : { "boom" }, messageEnd : { 64, 264 } ] }
                      \cup { Some([ error |-> None,
                                    result |-> [ content |-> << c >>,
                                                 isError |-> None ] ]) :
                               c \in ContentItems } ]

\* the model answers in text, which ends the loop, or requests tool calls
LoopModelStep ==
    \E step \in LoopChoices :
        /\ pc = "model"
        /\ Range(step) \subseteq enabledTools
        /\ previousSteps' = Append(previousSteps, step)
        /\ conversation' = Append(conversation, step)
        /\ pc' = IF step = <<>> THEN "idle" ELSE "execute"
        /\ UNCHANGED <<tools, enabledTools, response, turn, mcpFetch, auxVars>>

\* the requested call is executed through the bridge; what execute returns
\* or throws becomes the call's result in the step (a thrown error is handed
\* to the model as the call's error result), and the loop goes on unless the
\* stop condition holds
LoopExecute ==
    \E reply \in LoopReplies :
        /\ pc = "execute"
        /\ rpcReply' = reply
        /\ toolResult' = execute(reply)
        /\ pc' = IF stepCountIs(StepLimit, previousSteps) THEN "idle" ELSE "prepare"
        /\ UNCHANGED <<tools, previousSteps, enabledTools, response, turn, mcpFetch,
                       conversation, mcpTools, registry, callVars, sideVars>>

LoopNext ==
    \/ Request
    \/ CreateMCPToolsResolves
    \/ CreateMCPToolsRejects
    \/ PrepareStep
    \/ LoopModelStep
    \/ LoopExecute

LoopSpec == Init /\ [][LoopNext]_vars

(***************************************************************************)
(* The tool loop with the tools/call request of execute in flight:         *)
(* jsonRpcRequest awaits fetch (mcp-http-client.ts:55-64), execute awaits  *)
(* jsonRpcRequest (mcp-http-client.ts:154-158)                             *)
(***************************************************************************)

\* tool steps of the turn so far
toolSteps(steps) == { i \in DOMAIN steps : steps[i] # <<>> }

\* mcp-http-client.ts:150-158, 55-64: execute calls jsonRpcRequest, which
\* posts the tools/call request and awaits the reply; the fetch carries no
\* signal and no timeout
CallSend ==
    /\ pc = "execute"
    /\ pc' = "awaiting"
    /\ callsSent' = callsSent + 1
    /\ UNCHANGED callsReported
    /\ UNCHANGED <<tools, previousSteps, enabledTools, response, turn, mcpFetch,
                   conversation, bridgeVars, sideVars>>

\* mcp-http-client.ts:66-95, 160-181: the reply arrives; execute returns the
\* extracted result or rethrows the error of the failed request, once, to
\* the loop, which goes on unless the stop condition holds
\* mutation: a failed request is sent again instead of being reported
CallReplyRetries ==
    \E reply \in LoopReplies :
        /\ pc = "awaiting"
        /\ rpcReply' = reply
        /\ toolResult' = execute(reply)
        /\ callsReported' = IF execute(reply).kind = "throw" /\ callsSent < 2 * StepLimit
                            THEN callsReported ELSE callsReported + 1
        /\ pc' = IF execute(reply).kind = "throw" /\ callsSent < 2 * StepLimit
                 THEN "execute"
                 ELSE IF stepCountIs(StepLimit, previousSteps) THEN "idle" ELSE "prepare"
        /\ UNCHANGED callsSent
        /\ UNCHANGED <<tools, previousSteps, enabledTools, response, turn, mcpFetch,
                       conversation, mcpTools, registry, sideVars>>

CallReply ==
    \E reply \in LoopReplies :
        /\ pc = "awaiting"
        /\ rpcReply' = reply
        /\ toolResult' = execute(reply)
        /\ callsReported' = callsReported + 1
        /\ pc' = IF stepCountIs(StepLimit, previousSteps) THEN "idle" ELSE "prepare"
        /\ UNCHANGED callsSent
        /\ UNCHANGED <<tools, previousSteps, enabledTools, response, turn, mcpFetch,
                       conversation, mcpTools, registry, sideVars>>

CallNext ==
    \/ Request
    \/ CreateMCPToolsResolves
    \/ CreateMCPToolsRejects
    \/ PrepareStep
    \/ LoopModelStep
    \/ CallSend
    \/ CallReply

CallSpec == Init /\ [][CallNext]_vars

(***************************************************************************)
(* One tools/list reply text delivered in either framing to jsonRpcRequest *)
(* and to createMCPTools, mcp-http-client.ts:44-95, 126-135                *)
(***************************************************************************)

\* reply texts: the JSON of a result, with or without a line terminator in
\* a string value of a tool entry, the JSON of an error, and text that is
\* not JSON
ReplyTexts ==
    [ json : { Some(v) : v \in ListEnvelopes }, separator : { FALSE },
      dataNext : { FALSE } ]
        \cup [ json : { Some(v) : v \in { e \in ListEnvelopes : e.result.tools # <<>> } },
               separator : { TRUE }, dataNext : BOOLEAN ]
        \cup [ json : { Some(v) : v \in ErrorEnvelopes } \cup { None },
               separator : { FALSE }, dataNext : { FALSE } ]

deliveryRest == <<routeVars, bridgeVars, callVars, cacheVars, voiceCall, promptBuild>>

\* the same text answers a tools/list request raw and in an SSE frame
Deliver ==
    \E ok \in BOOLEAN, text \in ReplyTexts :
        LET rawReply == received(ok, [ framing |-> "raw", text |-> text ])
            sseReply == received(ok, [ framing |-> "sse", text |-> text ])
        IN  /\ delivery.pc = "idle"
            /\ delivery' = [ pc |-> "done", ok |-> ok, text |-> text,
                             raw |-> jsonRpcRequest(rawReply),
                             sse |-> jsonRpcRequest(sseReply),
                             catalogRaw |-> createMCPTools(rawReply),
                             catalogSse |-> createMCPTools(sseReply) ]
            /\ UNCHANGED deliveryRest

\* both requests are over
Delivered ==
    /\ delivery.pc = "done"
    /\ delivery' = NoDelivery
    /\ UNCHANGED deliveryRest

FramingNext ==
    \/ Deliver
    \/ Delivered

FramingSpec == Init /\ [][FramingNext]_vars

(***************************************************************************)
(* buildSystemPromptAsync over the Supabase table and the local knowledge  *)
(* files, unnamed/part_009:314-363                                         *)
(***************************************************************************)

MaxRows == 2

MaxFiles == 2

\* rows of agent_knowledge, as the query returns them
RowChoices == [ content : { "row-a", "row-b" } ]

\* local knowledge files
FileChoices == [ priority : { 1, 99 }, content : { "file-a", "file-b" } ]

\* what the awaited query does: it throws, or it returns an error without
\* data, or data (possibly null) without an error
QueryOutcomes ==
    { [ kind |-> "throw" ],
      [ kind |-> "return", error |-> Some("message"), data |-> None ],
      [ kind |-> "return", error |-> None, data |-> None ] }
        \cup { [ kind |-> "return", error |-> None, data |-> Some(rows) ] :
                 rows \in SeqsUpTo(RowChoices, MaxRows) }

promptRest == <<routeVars, bridgeVars, callVars, cacheVars, voiceCall, delivery>>

\* part_009:351-363: one call of buildSystemPromptAsync; the query is made
\* only when the credentials are set
BuildPrompt ==
    \E configured \in BOOLEAN, files \in SeqsUpTo(FileChoices, MaxFiles) :
        \E query \in IF configured THEN QueryOutcomes ELSE { NoValue } :
            /\ promptBuild.pc = "idle"
            /\ promptBuild' = [ pc |-> "done", configured |-> configured,
                                query |-> query, files |-> files,
                                prompt |-> buildSystemPromptAsync(configured, query, files) ]
            /\ UNCHANGED promptRest

\* the caller has the prompt
PromptReturn ==
    /\ promptBuild.pc = "done"
    /\ promptBuild' = NoBuild
    /\ UNCHANGED promptRest

PromptNext ==
    \/ BuildPrompt
    \/ PromptReturn

PromptSpec == Init /\ [][PromptNext]_vars

(***************************************************************************)
(* HTTP calls of the voice interface to the automation service:            *)
(* safeAutomationCall (voice-interface.tsx:17-48), called by every client  *)
(* tool, and the fetch of start (voice-interface.tsx:426-437)              *)
(***************************************************************************)

\* endpoints the client tools call
Endpoints ==
    { "/navigate", "/webview/click", "/webview/fill", "/webview/execute",
      "/webview/scroll", "/webview/back", "/screenshot/webview", "/tabs/new",
      "/tabs/list", "/tabs/switch", "/tabs/close", "/terminal/write" }

\* HTTP statuses the automation service answers with
Statuses == { 200, 204, 404, 500 }

\* response bodies: JSON values, or text that is not JSON
Bodies == { [ json |-> Some("result-1") ], [ json |-> Some("result-2") ],
            [ json |-> None ] }

voiceRest == <<routeVars, bridgeVars, callVars, cacheVars, promptBuild, delivery>>

\* voice-interface.tsx:21-32: the timer is armed and fetch is called with
\* the controller's signal
SafeCallStart ==
    \E endpoint \in Endpoints :
        /\ voiceCall.pc = "idle"
        /\ voiceCall' = [ NoCall EXCEPT !.pc = "fetch", !.caller = endpoint,
                                        !.timer = "armed" ]
        /\ UNCHANGED voiceRest

\* voice-interface.tsx:34-38: the response arrives; the timer is cleared;
\* a non-OK status is returned as a failure
SafeCallResponse ==
    \E status \in Statuses :
        /\ voiceCall.pc = "fetch"
        /\ voiceCall.caller \in Endpoints
        /\ voiceCall' = IF responseOk(status)
                        THEN [ voiceCall EXCEPT !.pc = "json", !.timer = "cleared",
                                                !.status = status ]
                        ELSE [ voiceCall EXCEPT !.pc = "done", !.timer = "cleared",
                                                !.status = status,
                                                !.result = httpFailure(status) ]
        /\ UNCHANGED voiceRest

\* voice-interface.tsx:23, 42-47: the timer fires while fetch is pending;
\* the abort makes fetch reject, which the catch turns into a failure
SafeCallTimeout ==
    /\ voiceCall.pc = "fetch"
    /\ voiceCall.caller \in Endpoints
    /\ voiceCall.timer = "armed"
    /\ voiceCall' = [ voiceCall EXCEPT !.pc = "done", !.timer = "fired",
                                       !.result = automationUnavailable ]
    /\ UNCHANGED voiceRest

\* voice-interface.tsx:42-47: fetch rejects (connection refused); the timer
\* is left armed
SafeCallNetworkError ==
    /\ voiceCall.pc = "fetch"
    /\ voiceCall.caller \in Endpoints
    /\ voiceCall' = [ voiceCall EXCEPT !.pc = "done", !.result = automationUnavailable ]
    /\ UNCHANGED voiceRest

\* voice-interface.tsx:40-41: the body is read and parsed
SafeCallBody ==
    \E body \in Bodies :
        /\ voiceCall.pc = "json"
        /\ voiceCall.caller \in Endpoints
        /\ voiceCall' = [ voiceCall EXCEPT !.pc = "done", !.body = body,
                                           !.result = bodyResult(body) ]
        /\ UNCHANGED voiceRest

\* voice-interface.tsx:426-432: start fetches the current URL; no signal,
\* no timer
StartFetch ==
    /\ voiceCall.pc = "idle"
    /\ voiceCall' = [ NoCall EXCEPT !.pc = "fetch", !.caller = "start" ]
    /\ UNCHANGED voiceRest

\* voice-interface.tsx:432: the response arrives; its status is not looked at
StartResponse ==
    \E status \in Statuses :
        /\ voiceCall.pc = "fetch"
        /\ voiceCall.caller = "start"
        /\ voiceCall' = [ voiceCall EXCEPT !.pc = "json", !.status = status ]
        /\ UNCHANGED voiceRest

\* voice-interface.tsx:433-437: the body is read; what it holds, or the
\* error of reading it, is dropped
StartBody ==
    \E body \in Bodies :
        /\ voiceCall.pc = "json"
        /\ voiceCall.caller = "start"
        /\ voiceCall' = [ voiceCall EXCEPT !.pc = "done", !.body = body ]
        /\ UNCHANGED voiceRest

\* voice-interface.tsx:435-437: fetch rejects; the error is dropped
StartNetworkError ==
    /\ voiceCall.pc = "fetch"
    /\ voiceCall.caller = "start"
    /\ voiceCall' = [ voiceCall EXCEPT !.pc = "done" ]
    /\ UNCHANGED voiceRest

\* the caller goes on with what it was handed
VoiceReturn ==
    /\ voiceCall.pc = "done"
    /\ voiceCall' = NoCall
    /\ UNCHANGED voiceRest

VoiceNext ==
    \/ SafeCallStart
    \/ SafeCallResponse
    \/ SafeCallTimeout
    \/ SafeCallNetworkError
    \/ SafeCallBody
    \/ StartFetch
    \/ StartResponse
    \/ StartBody
    \/ StartNetworkError
    \/ VoiceReturn

VoiceSpec == Init /\ [][VoiceNext]_vars

\* the handler's own steps and the model provider's answer are not put off
\* forever; nothing makes the remote server answer a tools/call request
CallFairSpec ==
    /\ Init
    /\ [][CallNext]_vars
    /\ WF_vars(CreateMCPToolsResolves \/ CreateMCPToolsRejects)
    /\ WF_vars(PrepareStep)
    /\ WF_vars(LoopModelStep)
    /\ WF_vars(CallSend)

(***************************************************************************)
(* Concurrent chat requests over the module-level catalog cache,           *)
(* knowledge/system.md:287-355                                             *)
(***************************************************************************)

MaxTicks == 5

TickMs == TOOLS_CACHE_TTL \div 3

\* catalogs a successful createMCPTools call may load
CacheCatalogs == {FullCatalog, PartialCatalog}

\* time passes on the server
Tick ==
    /\ clock < MaxTicks * TickMs
    /\ clock' = clock + TickMs
    /\ UNCHANGED <<cachedTools, toolsCacheTime, fetchedAt, latestFetchStart, requests>>
    /\ UNCHANGED <<routeVars, bridgeVars, callVars, voiceCall, promptBuild, delivery>>

\* system.md:311-313, 292-299: POST calls getTools, which reads the time and
\* returns the cached catalog when it is fresh, and otherwise starts
\* createMCPTools and waits for it
GetTools(r) ==
    /\ requests[r].pc = "idle"
    /\ LET now == clock
       IN  requests' = [requests EXCEPT ![r] =
               IF cacheFresh(now)
               THEN [ pc |-> "streamText", now |-> now, fetch |-> "none",
                      got |-> cachedTools ]
               ELSE [ pc |-> "fetching", now |-> now, fetch |-> "pending",
                      got |-> None ]]
    /\ UNCHANGED <<clock, cachedTools, toolsCacheTime, fetchedAt, latestFetchStart>>
    /\ UNCHANGED <<routeVars, bridgeVars, callVars, voiceCall, promptBuild, delivery>>

\* system.md:300-303: createMCPTools resolves; the catalog is stored with
\* the time read when this getTools call began, and returned
\* mutation: the catalog is stamped with the time at which the fetch resolved
FetchResolvesStampsCompletion(r) ==
    \E catalog \in CacheCatalogs :
        LET loaded == [ tools |-> catalog, toolCount |-> Cardinality(catalog) ]
        IN  /\ requests[r].pc = "fetching"
            /\ cachedTools' = Some(loaded)
            /\ toolsCacheTime' = clock
            /\ fetchedAt' = clock
            /\ latestFetchStart' = IF requests[r].now > latestFetchStart
                                   THEN requests[r].now ELSE latestFetchStart
            /\ requests' = [requests EXCEPT ![r] =
                    [ pc |-> "streamText", now |-> requests[r].now,
                      fetch |-> "resolved", got |-> Some(loaded) ]]
            /\ UNCHANGED clock
            /\ UNCHANGED <<routeVars, bridgeVars, callVars, voiceCall, promptBuild, delivery>>

FetchResolves(r) ==
    \E catalog \in CacheCatalogs :
        LET loaded == [ tools |-> catalog, toolCount |-> Cardinality(catalog) ]
        IN  /\ requests[r].pc = "fetching"
            /\ cachedTools' = Some(loaded)
            /\ toolsCacheTime' = requests[r].now
            /\ fetchedAt' = clock
            /\ latestFetchStart' = IF requests[r].now > latestFetchStart
                                   THEN requests[r].now ELSE latestFetchStart
            /\ requests' = [requests EXCEPT ![r] =
                    [ pc |-> "streamText", now |-> requests[r].now,
                      fetch |-> "resolved", got |-> Some(loaded) ]]
            /\ UNCHANGED clock
            /\ UNCHANGED <<routeVars, bridgeVars, callVars, voiceCall, promptBuild, delivery>>

\* system.md:304-308: createMCPTools rejects; getTools returns an empty tool
\* set and leaves the cache as it was
FetchRejects(r) ==
    /\ requests[r].pc = "fetching"
    /\ requests' = [requests EXCEPT ![r] =
            [ pc |-> "streamText", now |-> requests[r].now,
              fetch |-> "rejected", got |-> Some(emptyTools) ]]
    /\ UNCHANGED <<clock, cachedTools, toolsCacheTime, fetchedAt, latestFetchStart>>
    /\ UNCHANGED <<routeVars, bridgeVars, callVars, voiceCall, promptBuild, delivery>>

\* system.md:315-354: streamText runs over the tools getTools returned and
\* the response is returned; the request is over
StreamText(r) ==
    /\ requests[r].pc = "streamText"
    /\ requests' = [requests EXCEPT ![r] = IdleRequest]
    /\ UNCHANGED <<clock, cachedTools, toolsCacheTime, fetchedAt, latestFetchStart>>
    /\ UNCHANGED <<routeVars, bridgeVars, callVars, voiceCall, promptBuild, delivery>>

CacheNext ==
    \/ Tick
    \/ \E r \in RequestIds : GetTools(r)
    \/ \E r \in RequestIds : FetchResolves(r)
    \/ \E r \in RequestIds : FetchRejects(r)
    \/ \E r \in RequestIds : StreamText(r)

CacheSpec == Init /\ [][CacheNext]_vars

(***************************************************************************)
(* Properties                                                              *)
(***************************************************************************)
\* a call of some tool of the navigation category is in the history
navigationCalled(steps) == usedTools(steps) \cap TOOL_CATEGORIES.navigation # {}

\* the categories getEnabledTools adds without any condition besides safe
\* and navigation
UnconditionalTools ==
    TOOL_CATEGORIES.terminal \cup TOOL_CATEGORIES.database_write
        \cup TOOL_CATEGORIES.memory \cup TOOL_CATEGORIES.voice
        \cup TOOL_CATEGORIES.agent_draft

InteractionButScreenshot == TOOL_CATEGORIES.interaction \ { "take_screenshot" }

\* C1: whatever the catalog and the history, every catalog tool of the
\* safe and navigation categories is exposed.
C1_SafeAndNavigationAlwaysExposed ==
    \A t \in tools :
        t \in TOOL_CATEGORIES.safe \cup TOOL_CATEGORIES.navigation
            => t \in enabledTools

C1_Witness ==
    /\ tools = PartialCatalog
    /\ screenshotCount(previousSteps) >= ScreenshotLimit
    /\ ~ navigationCalled(previousSteps)
    /\ { "navigate_browser", "create_tab", "list_tabs" } \subseteq enabledTools

\* C2 (as claimed): once the history holds a call of any navigation tool
\* (navigate_browser, create_tab or switch_tab), every interaction tool of
\* the catalog other than take_screenshot is exposed.
C2_AnyNavigationCallUnlocksInteraction ==
    navigationCalled(previousSteps)
        => (tools \cap InteractionButScreenshot) \subseteq enabledTools

\* C3 (as claimed): with interaction unlocked, take_screenshot is excluded
\* once the history holds 5 or more individual take_screenshot calls, the
\* other interaction tools stay exposed, and it is exposed below 5 calls.
C3_ScreenshotLimitCountsCalls ==
    hasNavigated(previousSteps) =>
        /\ (tools \cap InteractionButScreenshot) \subseteq enabledTools
        /\ screenshotCalls(previousSteps) >= ScreenshotLimit
              => "take_screenshot" \notin enabledTools
        /\ (screenshotCalls(previousSteps) < ScreenshotLimit
              /\ "take_screenshot" \in tools)
              => "take_screenshot" \in enabledTools

\* C4 (as claimed): at every step of every turn the exposed set is the gate
\* evaluated over all prior steps of the whole conversation, earlier turns
\* included.
C4_GateOverWholeConversation ==
    pc = "model" => enabledTools = getEnabledTools(tools, conversation)

\* C5 (as claimed): a request whose catalog fetch failed is still answered
\* with the normal conversational response, never with the 500 response.
C5_CatalogFailureStillAnswered ==
    mcpFetch = "rejected" => response = "stream"

\* C6 (as claimed): close_tab is exposed exactly when the history holds a
\* call of some navigation tool or of list_tabs.
C6_DestructiveIffNavigationOrListTabs ==
    \A t \in tools \cap TOOL_CATEGORIES.destructive :
        t \in enabledTools
            <=> (navigationCalled(previousSteps)
                    \/ "list_tabs" \in usedTools(previousSteps))

\* C7: the exposed set is a subset of the catalog, holds categorized tools
\* only, and takes each category whole or not at all (take_screenshot
\* apart): it is the catalog cut down to the selected categories, names the
\* catalog lacks being left out.
C7_ExposedIsCatalogCutToSelectedCategories ==
    /\ enabledTools \subseteq tools
    /\ enabledTools \subseteq CategorizedTools
    /\ \A c \in CategoryNames :
          \/ (tools \cap TOOL_CATEGORIES[c]) \ { "take_screenshot" }
                \subseteq enabledTools
          \/ TOOL_CATEGORIES[c] \cap enabledTools = {}

C7_Witness ==
    /\ tools = PartialCatalog
    /\ hasNavigated(previousSteps)
    /\ "click_element" \in enabledTools
    /\ "fill_input" \notin enabledTools
    /\ UncategorizedTools \subseteq tools
    /\ UncategorizedTools \cap enabledTools = {}

\* C8: with an empty history the exposed set is exactly the catalog tools of
\* safe, navigation, terminal, database_write, memory, voice and
\* agent_draft; no interaction and no destructive tool is exposed.
C8_EmptyHistoryExposure ==
    previousSteps = <<>> =>
        /\ enabledTools =
              tools \cap (TOOL_CATEGORIES.safe \cup TOOL_CATEGORIES.navigation
                            \cup UnconditionalTools)
        /\ enabledTools \cap TOOL_CATEGORIES.interaction = {}
        /\ enabledTools \cap TOOL_CATEGORIES.destructive = {}

C8_Witness ==
    /\ previousSteps = <<>>
    /\ tools = FullCatalog
    /\ "send_terminal_command" \in enabledTools

\* C9: without a navigation call in the history no interaction tool is
\* exposed, however many take_screenshot calls the history holds.
C9_NoNavigationNoInteraction ==
    ~ navigationCalled(previousSteps)
        => enabledTools \cap TOOL_CATEGORIES.interaction = {}

C9_Witness ==
    /\ tools = FullCatalog
    /\ ~ navigationCalled(previousSteps)
    /\ screenshotCalls(previousSteps) >= ScreenshotLimit
    /\ screenshotCount(previousSteps) >= ScreenshotLimit
    /\ enabledTools \cap TOOL_CATEGORIES.interaction = {}

\* C10: once navigate_browser is in the history, the destructive tools and
\* the interaction tools of the catalog are exposed, take_screenshot
\* included as long as fewer than 5 steps hold a take_screenshot call.
C10_NavigateBrowserUnlocks ==
    "navigate_browser" \in usedTools(previousSteps) =>
        /\ (tools \cap TOOL_CATEGORIES.destructive) \subseteq enabledTools
        /\ (tools \cap InteractionButScreenshot) \subseteq enabledTools
        /\ (screenshotCount(previousSteps) < ScreenshotLimit
              /\ "take_screenshot" \in tools)
              => "take_screenshot" \in enabledTools

C10_Witness ==
    /\ tools = FullCatalog
    /\ "navigate_browser" \in usedTools(previousSteps)
    /\ ~ hasNavigatedOnlyCreateTab(previousSteps)
    /\ screenshotCount(previousSteps) = ScreenshotLimit - 1
    /\ { "close_tab", "click_element", "take_screenshot" } \subseteq enabledTools

\* C11: whatever the history, every catalog tool of the terminal,
\* database_write, memory, voice and agent_draft categories is exposed.
C11_UnconditionalCategoriesAlwaysExposed ==
    (tools \cap UnconditionalTools) \subseteq enabledTools

C11_Witness ==
    /\ tools = PartialCatalog
    /\ Len(previousSteps) = MaxSteps
    /\ ~ hasNavigated(previousSteps)
    /\ "list_tabs" \in usedTools(previousSteps)
    /\ { "send_terminal_command", "supabase_delete", "store_memory",
         "voice_start_listening", "draft_to_agent" } \subseteq enabledTools
    /\ "create_terminal" \notin enabledTools

\* C12: appending a step to the history never removes an exposed tool other
\* than take_screenshot (so the exposure is monotonic along every chain of
\* prefixes).
C12_ExposureMonotonicButScreenshot ==
    [][ (enabledTools \ { "take_screenshot" }) \subseteq enabledTools' ]_vars

C12_Witness ==
    /\ tools = FullCatalog
    /\ hasNavigated(previousSteps)
    /\ ~ hasNavigatedInLastStep(previousSteps)
    /\ screenshotCount(previousSteps) >= ScreenshotLimit
    /\ "take_screenshot" \notin enabledTools
    /\ { "click_element", "close_tab" } \subseteq enabledTools

\* the flattened sequence of the tool calls of a history
RECURSIVE flatten(_)
flatten(steps) ==
    IF steps = <<>> THEN <<>> ELSE Head(steps) \o flatten(Tail(steps))

\* the history that holds the same calls in the same order, one call a step
oneCallPerStep(steps) ==
    [ i \in 1..Len(flatten(steps)) |-> << flatten(steps)[i] >> ]

\* C13 (as claimed): the exposed set depends on the flattened sequence of
\* tool calls only; regrouping the same calls into steps of one call each
\* yields the same exposed set.
C13_ExposureIndependentOfGrouping ==
    enabledTools = getEnabledTools(tools, oneCallPerStep(previousSteps))

\* the schema the last catalog entry named n declares
declaredSchema(n) ==
    mcpTools[CHOOSE i \in DOMAIN mcpTools :
               /\ mcpTools[i].name = n
               /\ \A j \in (i + 1)..Len(mcpTools) : mcpTools[j].name # n].inputSchema

\* C17: after createMCPTools, every catalog entry is registered, every
\* registered schema has root type 'object', an entry whose schema is
\* missing or not of type 'object' has exactly {type: 'object',
\* properties: {}}, and as many tools are registered as the catalog holds
\* distinct names.
C17_SchemasNormalizedNoToolDropped ==
    registry.kind = "return" =>
        LET registered == registry.value.tools
        IN  /\ DOMAIN registered = { mcpTools[i].name : i \in DOMAIN mcpTools }
            /\ Cardinality(DOMAIN registered)
                  = Cardinality({ mcpTools[i].name : i \in DOMAIN mcpTools })
            /\ \A n \in DOMAIN registered :
                  /\ registered[n].inputSchema.type = Some("object")
                  /\ (\/ declaredSchema(n) = None
                      \/ The(declaredSchema(n)).type # Some("object"))
                        => registered[n].inputSchema = defaultSchema

C17_Witness ==
    /\ registry.kind = "return"
    /\ Len(mcpTools) = 2
    /\ mcpTools[1].name = "take_screenshot"
    /\ mcpTools[1].inputSchema # None
    /\ The(mcpTools[1].inputSchema).type = Some("string")
    /\ mcpTools[2].name = "list_tabs"
    /\ mcpTools[2].inputSchema = None
    /\ DOMAIN registry.value.tools = { "take_screenshot", "list_tabs" }
    /\ registry.value.tools["take_screenshot"].inputSchema = defaultSchema

\* the image items of the last tools/call result that hold data
imagePayloads ==
    LET content == The(rpcReply.json).result.content
    IN  { The(content[i].data) :
            i \in { j \in DOMAIN content :
                      content[j].type = "image" /\ content[j].data # None } }

\* C18 (as claimed): when execute returns for a result with image payloads,
\* the returned value holds every one of them, along with the text.
C18_EveryImagePayloadReturned ==
    toolResult.kind = "return" =>
        /\ imagePayloads
              \subseteq { toolResult.value.images[i].image :
                            i \in DOMAIN toolResult.value.images }
        /\ imagePayloads # {} =>
              \A i \in DOMAIN textContent(The(rpcReply.json).result.content) :
                  textContent(The(rpcReply.json).result.content)[i]
                      \in Range(toolResult.value.text)

\* the last tools/call reply is a JSON-RPC reply with an error member
replyCarriesError ==
    /\ rpcReply.ok
    /\ rpcReply.json # None
    /\ The(rpcReply.json).error # None

\* C19 (as claimed): a reply with an error member makes the request fail
\* with the MCP error that carries error.message, SSE-framed or plain alike.
C19_ErrorMemberRaisesMcpError ==
    (toolResult.kind # "none" /\ replyCarriesError) =>
        /\ toolResult.kind = "throw"
        /\ toolResult.error = "MCP error"
        /\ toolResult.carries = Some(errorText(The(The(rpcReply.json).error)))

\* C15: a turn takes at most 10 model steps: while the loop runs fewer than
\* 10 steps were taken and each of them requested tool calls; a finished
\* turn ended on its first text answer or on its 10th step, and its
\* response is the normal stream, not the error response.
C15_TurnEndsWithinStepLimit ==
    /\ Len(previousSteps) <= StepLimit
    /\ pc \in { "prepare", "model" } =>
          /\ Len(previousSteps) < StepLimit
          /\ \A i \in DOMAIN previousSteps : previousSteps[i] # <<>>
    /\ (pc = "idle" /\ mcpFetch = "resolved") =>
          /\ response = "stream"
          /\ Len(previousSteps) >= 1
          /\ \/ previousSteps[Len(previousSteps)] = <<>>
             \/ Len(previousSteps) = StepLimit
          /\ \A i \in 1..(Len(previousSteps) - 1) : previousSteps[i] # <<>>

C15_Witness ==
    /\ pc = "idle"
    /\ turn = MaxTurns
    /\ Len(previousSteps) = StepLimit
    /\ previousSteps[StepLimit] # <<>>
    /\ response = "stream"

\* C16 (as claimed): when the tools/call reply of a step carries an error
\* member with message m, the call's result fed back to the model holds m,
\* the request keeps its normal response, and the loop goes on to a next
\* model step unless the step limit is reached.
C16_RemoteErrorFedBackWithMessage ==
    (toolResult.kind # "none" /\ replyCarriesError) =>
        /\ toolResult.kind = "throw"
        /\ toolResult.carries = Some(The(The(rpcReply.json).error).message)
        /\ response = "stream"
        /\ pc = "idle" =>
              \/ previousSteps[Len(previousSteps)] = <<>>
              \/ Len(previousSteps) = StepLimit

\* C20 as stated, the age of the catalog counted from the moment its fetch
\* resolved: a request that calls getTools less than TOOLS_CACHE_TTL ms after
\* the fetch that filled the cache resolved is handed the cached catalog and
\* issues no fetch
C20_ServedWithinTtlOfFetchCompletion ==
    [][ \A r \in RequestIds :
            ( /\ requests[r].pc = "idle"
              /\ requests'[r].pc # "idle"
              /\ cachedTools # None
              /\ clock - fetchedAt < TOOLS_CACHE_TTL )
            => ( /\ requests'[r].pc = "streamText"
                 /\ requests'[r].fetch = "none"
                 /\ requests'[r].got = cachedTools ) ]_vars

\* C20, the age of the catalog counted from the moment the getTools call that
\* fetched it began: a request that calls getTools less than TOOLS_CACHE_TTL
\* ms after that moment is handed the cached catalog and issues no fetch; a
\* request that finds the cache empty or older issues a fetch; and a request
\* reaches the model call (streamText) only with no fetch of its own pending,
\* holding what getTools returned
C20_ServedWithinTtlOfFetchStart ==
    [][ \A r \in RequestIds :
            /\ ( requests[r].pc = "idle" /\ requests'[r].pc # "idle" )
               => IF cachedTools # None /\ clock - toolsCacheTime < TOOLS_CACHE_TTL
                  THEN /\ requests'[r].pc = "streamText"
                       /\ requests'[r].fetch = "none"
                       /\ requests'[r].got = cachedTools
                  ELSE /\ requests'[r].pc = "fetching"
                       /\ requests'[r].fetch = "pending"
            /\ ( requests[r].pc # "streamText" /\ requests'[r].pc = "streamText" )
               => /\ requests'[r].fetch # "pending"
                  /\ requests'[r].got # None
                  /\ requests[r].pc = "idle" \/ requests[r].fetch = "pending" ]_vars

\* one request is served the cached catalog later than the call that fetched
\* it began, and another, having found the cache older than the TTL, has
\* fetched the catalog again and holds it before its model call
C20_Witness ==
    \E r, q \in RequestIds :
        /\ r # q
        /\ requests[r].pc = "streamText"
        /\ requests[r].fetch = "none"
        /\ requests[r].got = cachedTools
        /\ requests[r].now > toolsCacheTime
        /\ requests[q].pc = "streamText"
        /\ requests[q].fetch = "resolved"
        /\ requests[q].now = toolsCacheTime
        /\ requests[q].now >= TOOLS_CACHE_TTL
        /\ fetchedAt > toolsCacheTime

\* C21: a request whose catalog fetch failed has been handed, by getTools, a
\* tool set with no tools and toolCount 0, whatever the cache holds, and
\* stands at the model call
C21_FailedFetchYieldsEmptyToolSet ==
    \A r \in RequestIds :
        requests[r].fetch = "rejected"
        => /\ requests[r].pc = "streamText"
           /\ requests[r].got # None
           /\ The(requests[r].got).tools = {}
           /\ The(requests[r].got).toolCount = 0

\* the fetch of a request that found the held catalog older than the TTL
\* has failed while that catalog is still held
C21_Witness ==
    \E r \in RequestIds :
        /\ requests[r].fetch = "rejected"
        /\ requests[r].pc = "streamText"
        /\ cachedTools # None
        /\ requests[r].now - toolsCacheTime >= TOOLS_CACHE_TTL
        /\ The(cachedTools).toolCount > 0

\* C22: every tools/call request that execute is waiting on comes to an
\* end, with a result or an error handed to the loop
C22_EveryCallCompletes ==
    (pc = "awaiting") ~> (pc # "awaiting")

\* C23: in every turn, one tools/call request has been sent for each tool
\* execution begun, and each ended execution, failed or not, has been
\* reported to the loop once
C23_OneRequestAndOneReportPerExecution ==
    LET begun == Cardinality(toolSteps(previousSteps))
    IN  /\ callsSent = IF pc = "execute" THEN begun - 1 ELSE begun
        /\ callsReported = IF pc \in {"execute", "awaiting"} THEN begun - 1 ELSE begun

\* the tools/call request of the third execution of a turn has failed and
\* its error has been handed to the loop
C23_Witness ==
    /\ pc = "prepare"
    /\ toolResult.kind = "throw"
    /\ Cardinality(toolSteps(previousSteps)) = 3
    /\ callsSent = 3
    /\ callsReported = 3

\* C24: while an HTTP call of the voice interface to the automation service
\* is pending, a timer that aborts it is armed; and safeAutomationCall ends
\* with success and the parsed data exactly for an OK status with a JSON
\* body, and with a failure carrying an error otherwise
C24_EveryCallTimedAndClassified ==
    /\ voiceCall.pc \in {"fetch", "json"} => voiceCall.timer = "armed"
    /\ ( voiceCall.pc = "done" /\ voiceCall.caller \in Endpoints )
       => /\ voiceCall.result # NoValue
          /\ voiceCall.result.success
                <=> ( /\ voiceCall.status >= 200 /\ voiceCall.status <= 299
                      /\ voiceCall.body.json # None )
          /\ voiceCall.result.success => voiceCall.result.data = voiceCall.body.json
          /\ ~voiceCall.result.success => voiceCall.result.error # None

\* rows a finished buildSystemPromptAsync call was given by Supabase: none
\* without credentials, on a thrown query, on an error or on null data
rowsReturned ==
    IF /\ promptBuild.configured
       /\ promptBuild.query.kind = "return"
       /\ promptBuild.query.error = None
       /\ promptBuild.query.data # None
    THEN The(promptBuild.query.data)
    ELSE <<>>

\* C25: buildSystemPromptAsync returns the contents of the Supabase rows when
\* at least one row was returned, and otherwise (no credentials, an error, a
\* thrown query, no row) the prompt of the local knowledge files, which is
\* the default prompt when there is no file
C25_SupabaseOnlyWhenRowsElseLocal ==
    promptBuild.pc = "done"
    => /\ promptBuild.prompt # <<>>
       /\ promptBuild.prompt =
            IF Len(rowsReturned) > 0
            THEN [ i \in 1..Len(rowsReturned) |-> rowsReturned[i].content ]
            ELSE buildSystemPrompt(promptBuild.files)
       /\ ( Len(rowsReturned) = 0 /\ promptBuild.files = <<>> )
            => promptBuild.prompt = getDefaultPrompt

\* with credentials the query returned no row, and the prompt is that of two
\* local files, the one of the smaller priority number first
C25_Witness ==
    /\ promptBuild.pc = "done"
    /\ promptBuild.configured
    /\ promptBuild.query.kind = "return"
    /\ promptBuild.query.data = Some(<<>>)
    /\ Len(promptBuild.files) = 2
    /\ promptBuild.files[1].priority > promptBuild.files[2].priority
    /\ promptBuild.prompt = << promptBuild.files[2].content, promptBuild.files[1].content >>

\* C26: over the whole conversation, the model being offered only the
\* exposed tools, at most ScreenshotLimit take_screenshot calls are made
C26_AtMostFiveScreenshotsPerConversation ==
    screenshotCalls(conversation) <= ScreenshotLimit

\* step k of the steps comes after a step that calls one of the tools
calledBefore(steps, k, toolNames) ==
    \E j \in 1..(k - 1) : Range(steps[j]) \cap toolNames # {}

C28_RawAndSseFramingsAgree ==
    delivery.pc = "done"
    => /\ ( /\ delivery.ok
            /\ delivery.text.json # None
            /\ The(delivery.text.json).error = None )
          => /\ delivery.raw = Return(The(delivery.text.json).result)
             /\ delivery.sse = delivery.raw
       /\ ( ~delivery.ok \/ delivery.text.json = None )
          => /\ delivery.raw.kind = "throw"
             /\ delivery.sse.kind = "throw"
             /\ delivery.catalogRaw.kind = "throw"
             /\ delivery.catalogSse.kind = "throw"

\* the reply of the last tools/call request failed in transport or carries
\* an error member
replyFailed ==
    \/ ~rpcReply.ok
    \/ rpcReply.json = None
    \/ The(rpcReply.json).error # None

C30_CacheNeverGoesBack ==
    [][ /\ toolsCacheTime' >= toolsCacheTime
        /\ \A r \in RequestIds :
              /\ ( /\ requests[r].pc = "fetching"
                    /\ requests'[r].fetch = "resolved"
                    /\ cachedTools # None )
                 => requests[r].now >= toolsCacheTime
              /\ ( requests[r].pc = "idle" /\ requests'[r].pc = "streamText" )
                 => clock - latestFetchStart < TOOLS_CACHE_TTL ]_vars

\* C30, the entry being that of the fetch that resolved last: whatever the
\* interleaving, the cached catalog and toolsCacheTime change only together,
\* to the catalog of a fetch that resolves and the start of its getTools
\* call, also when that fetch began before the one that made the entry it
\* replaces; and a cached catalog is served only less than TOOLS_CACHE_TTL
\* ms after the start of the fetch that made it, which is no later than
\* the latest start of a fetch that resolved
C30_EntryOfLastResolvedFetch ==
    [][ /\ <<cachedTools, toolsCacheTime>>' # <<cachedTools, toolsCacheTime>>
           => \E r \in RequestIds :
                 /\ requests[r].pc = "fetching"
                 /\ requests'[r].fetch = "resolved"
                 /\ cachedTools' = requests'[r].got
                 /\ toolsCacheTime' = requests[r].now
        /\ toolsCacheTime' <= latestFetchStart'
        /\ \A r \in RequestIds :
              ( requests[r].pc = "idle" /\ requests'[r].pc = "streamText" )
              => /\ cachedTools # None
                 /\ requests'[r].got = cachedTools
                 /\ clock - toolsCacheTime < TOOLS_CACHE_TTL
                 /\ clock - latestFetchStart < TOOLS_CACHE_TTL ]_vars

\* a request has been served a cached catalog whose fetch began before
\* another fetch that resolved: the later-started entry was replaced
C30_Witness ==
    \E r \in RequestIds :
        /\ requests[r].pc = "streamText"
        /\ requests[r].fetch = "none"
        /\ requests[r].got = cachedTools
        /\ cachedTools # None
        /\ toolsCacheTime < latestFetchStart
        /\ fetchedAt > latestFetchStart

====
